---- MODULE Spec2Model ----
(***************************************************************************)
(* Model of the day3 wire grid (src/day3/src/wires/mod.rs): Coordinate,    *)
(* Movement, Wire and Grid, with the text parsers that build them; of the  *)
(* day4 password test (src/day4/src/security/mod.rs); and of the day2      *)
(* intcode Program (src/day2/src/intcode/mod.rs).                          *)
(*                                                                         *)
(* Text is a sequence of characters, each character a string naming it     *)
(* ("U", "7", ","; "e_acute" is U+00E9).  Rust's str is UTF-8: len() and   *)
(* slicing count bytes, so every character carries its encoded width       *)
(* (ByteLen).                                                              *)
(*                                                                         *)
(* The i32/u32 types are kept as two's-complement words of IntBits bits    *)
(* (a scaled-down 32): casts wrap, and +, - either wrap or panic,          *)
(* depending on whether the build has overflow checks (debug) or not       *)
(* (release).                                                              *)
(***************************************************************************)
EXTENDS Integers, Sequences, FiniteSets, TLC

VARIABLES
    overflow_checks, \* build profile: TRUE = debug (overflow panics), FALSE = release (wraps)
    wires,           \* Grid.wires
    pc,              \* position of the run: "lines" (in parse_file's loop), "ok" (grid
                     \* returned), "err" (parse_file failed), "done" (query answered), "panic"
    ret,             \* value returned by the last call on the grid
    text,            \* input text of the last parser call
    start,           \* start coordinate handed to find_path
    movRes,          \* result of Movement::parse(text)
    pathRes,         \* result of find_path on the parsed movement
    wireRes,         \* result of Wire::parse(text)
    password,        \* day4: the bytes handed to possible_password
    pwRes,           \* day4: result of possible_password(password)
    program,         \* day2: the Program (pc, memory, code)
    progRet          \* day2: value returned by the last call on the Program

day4Vars == <<password, pwRes>>
day2Vars == <<program, progRet>>

vars == <<overflow_checks, wires, pc, ret, text, start, movRes, pathRes, wireRes,
          password, pwRes, program, progRet>>

-----------------------------------------------------------------------------
(* Machine integers *)

IntBits == 8

RECURSIVE Pow2(_)
Pow2(n) == IF n = 0 THEN 1 ELSE 2 * Pow2(n - 1)

U32Max == Pow2(IntBits) - 1
I32Max == Pow2(IntBits - 1) - 1
I32Min == 0 - Pow2(IntBits - 1)

InI32(n) == I32Min <= n /\ n <= I32Max
InU32(n) == 0 <= n /\ n <= U32Max

\* two's-complement wrap of a mathematical integer into i32 (also the `as i32` cast)
WrapI32(n) == ((n - I32Min) % Pow2(IntBits)) + I32Min
\* wrap into u32 (also the `as u32` cast)
WrapU32(n) == n % Pow2(IntBits)

None == [some |-> FALSE]
Some(v) == [some |-> TRUE, val |-> v]

Panic == [kind |-> "panic"]
Ok(v) == [kind |-> "ok", val |-> v]
Err(m) == [kind |-> "err", msg |-> m]

\* i32 `a + b` / `a - b` given as the mathematical result n
ArithI32(n, checks) ==
    IF InI32(n) THEN Ok(n)
    ELSE IF checks THEN Panic ELSE Ok(WrapI32(n))

\* u32 arithmetic result
ArithU32(n, checks) ==
    IF InU32(n) THEN Ok(n)
    ELSE IF checks THEN Panic ELSE Ok(WrapU32(n))

-----------------------------------------------------------------------------
(* Coordinate *)

Coordinate(x, y) == [x |-> x, y |-> y]

COORD_ORIGIN == Coordinate(0, 0)

\* derived Ord: x first, then y
CoordLess(a, b) == a.x < b.x \/ (a.x = b.x /\ a.y < b.y)

\* i32::abs: abs(i32::MIN) overflows
AbsI32(n, checks) == ArithI32(IF n < 0 THEN 0 - n ELSE n, checks)

\* Coordinate::distance
distance(a, b, checks) ==
    LET dx == ArithI32(a.x - b.x, checks)
        dy == ArithI32(a.y - b.y, checks)
    IN  IF dx.kind = "panic" \/ dy.kind = "panic" THEN Panic
        ELSE LET ax == AbsI32(dx.val, checks)
                 ay == AbsI32(dy.val, checks)
             IN  IF ax.kind = "panic" \/ ay.kind = "panic" THEN Panic
                 ELSE LET s == ArithI32(ax.val + ay.val, checks)
                      IN  IF s.kind = "panic" THEN Panic
                          ELSE Ok(WrapU32(s.val))

-----------------------------------------------------------------------------
(* Text *)

Digits == <<"0", "1", "2", "3", "4", "5", "6", "7", "8", "9">>

IsDigit(c) == \E i \in 1..10 : Digits[i] = c
DigitVal(c) == (CHOOSE i \in 1..10 : Digits[i] = c) - 1

\* UTF-8 width of a character
ByteLen(c) == IF c = "e_acute" THEN 2 ELSE 1

RECURSIVE StrLen(_)
\* str::len: length in bytes
StrLen(s) == IF s = <<>> THEN 0 ELSE ByteLen(Head(s)) + StrLen(Tail(s))

IsWhitespace(c) == c = " "

RECURSIVE TrimStart(_)
TrimStart(s) ==
    IF s # <<>> /\ IsWhitespace(Head(s)) THEN TrimStart(Tail(s)) ELSE s

RECURSIVE TrimEnd(_)
TrimEnd(s) ==
    IF s # <<>> /\ IsWhitespace(s[Len(s)])
    THEN TrimEnd(SubSeq(s, 1, Len(s) - 1)) ELSE s

\* str::trim
Trim(s) == TrimEnd(TrimStart(s))

RECURSIVE SplitFrom(_, _, _)
SplitFrom(s, cur, sep) ==
    IF s = <<>> THEN <<cur>>
    ELSE IF Head(s) = sep THEN <<cur>> \o SplitFrom(Tail(s), <<>>, sep)
    ELSE SplitFrom(Tail(s), Append(cur, Head(s)), sep)

\* str::split(sep): the pieces between separators, empty pieces included
Split(s, sep) == SplitFrom(s, <<>>, sep)

\* char::to_uppercase on the characters the model draws
ToUpper(c) ==
    CASE c = "u" -> "U"
      [] c = "d" -> "D"
      [] c = "l" -> "L"
      [] c = "r" -> "R"
      [] c = "x" -> "X"
      [] OTHER -> c

RECURSIVE ParseDigits(_, _)
\* the digit loop of u32::from_str: checked_mul(10) then checked_add(digit)
ParseDigits(s, acc) ==
    IF s = <<>> THEN Ok(acc)
    ELSE IF ~IsDigit(Head(s)) THEN Err(<<"invalid digit found in string">>)
    ELSE LET n == acc * 10 + DigitVal(Head(s))
         IN  IF n > U32Max THEN Err(<<"number too large to fit in target type">>)
             ELSE ParseDigits(Tail(s), n)

\* str::parse::<u32>: an optional leading '+', then at least one digit
ParseU32(s) ==
    IF s = <<>> THEN Err(<<"cannot parse integer from empty string">>)
    ELSE IF Len(s) = 1 /\ Head(s) \in {"+", "-"} THEN Err(<<"invalid digit found in string">>)
    ELSE IF Head(s) = "+" THEN ParseDigits(Tail(s), 0)
    ELSE ParseDigits(s, 0)

-----------------------------------------------------------------------------
(* Movement *)

Up(v) == [dir |-> "U", amount |-> v]
Down(v) == [dir |-> "D", amount |-> v]
Left(v) == [dir |-> "L", amount |-> v]
Right(v) == [dir |-> "R", amount |-> v]

\* Movement::parse.  mov[1..] panics when byte 1 is not a character boundary.
Movement_parse(mov) ==
    IF StrLen(mov) < 2 THEN Err(<<"invalid movement length">>)
    ELSE IF ByteLen(Head(mov)) # 1 THEN Panic
    ELSE LET amount == ParseU32(Tail(mov))
             dir == ToUpper(Head(mov))
         IN  IF amount.kind = "err" THEN Err(amount.msg)
             ELSE CASE dir = "U" -> Ok(Up(amount.val))
                    [] dir = "D" -> Ok(Down(amount.val))
                    [] dir = "L" -> Ok(Left(amount.val))
                    [] dir = "R" -> Ok(Right(amount.val))
                    [] OTHER -> Err(<<"unknown movement direction", dir>>)

\* the half-open range lo..hi, in order
RangeExclusive(lo, hi) == [k \in 1..(IF hi > lo THEN hi - lo ELSE 0) |-> lo + k - 1]

\* the inclusive range lo..=hi, in order
RangeInclusive(lo, hi) == [k \in 1..(IF hi >= lo THEN hi - lo + 1 ELSE 0) |-> lo + k - 1]

\* Iterator::rev
Rev(s) == [k \in 1..Len(s) |-> s[Len(s) + 1 - k]]

\* Movement::find_path
find_path(mv, st, checks) ==
    LET v == WrapI32(mv.amount)
    IN  CASE mv.dir = "U" ->
               LET hi == ArithI32(st.y + v, checks)
               IN  IF hi.kind = "panic" THEN Panic
                   ELSE LET r == RangeInclusive(st.y, hi.val)
                        IN  Ok([k \in 1..Len(r) |-> Coordinate(st.x, r[k])])
          [] mv.dir = "D" ->
               LET lo == ArithI32(st.y - v, checks)
               IN  IF lo.kind = "panic" THEN Panic
                   ELSE LET r == Rev(RangeInclusive(lo.val, st.y))
                        IN  Ok([k \in 1..Len(r) |-> Coordinate(st.x, r[k])])
          [] mv.dir = "L" ->
               LET lo == ArithI32(st.x - v, checks)
               IN  IF lo.kind = "panic" THEN Panic
                   ELSE LET r == Rev(RangeInclusive(lo.val, st.x))
                        IN  Ok([k \in 1..Len(r) |-> Coordinate(r[k], st.y)])
          [] mv.dir = "R" ->
               LET hi == ArithI32(st.x + v, checks)
               IN  IF hi.kind = "panic" THEN Panic
                   ELSE LET r == RangeInclusive(st.x, hi.val)
                        IN  Ok([k \in 1..Len(r) |-> Coordinate(r[k], st.y)])


-----------------------------------------------------------------------------
(* Wire *)

RECURSIVE ParseMoves_noskip(_, _)
\* ParseMoves without the test for blank tokens
ParseMoves_noskip(raw, moves) ==
    IF raw = <<>> THEN Ok(moves)
    ELSE LET m == Movement_parse(Head(raw))
         IN  IF m.kind # "ok" THEN m
             ELSE ParseMoves_noskip(Tail(raw), Append(moves, m.val))

RECURSIVE ParseMoves(_, _)
\* the token loop of Wire::parse: skip blank tokens, `?` on the first failure
ParseMoves(raw, moves) ==
    IF raw = <<>> THEN Ok(moves)
    ELSE IF StrLen(Trim(Head(raw))) = 0 THEN ParseMoves(Tail(raw), moves)
    ELSE LET m == Movement_parse(Head(raw))
         IN  IF m.kind # "ok" THEN m
             ELSE ParseMoves(Tail(raw), Append(moves, m.val))

RECURSIVE Replay_keepfirst(_, _, _, _)
\* Replay without dropping the first coordinate of each path
Replay_keepfirst(moves, coords, cur_coord, checks) ==
    IF moves = <<>> THEN Ok(coords)
    ELSE LET found == find_path(Head(moves), cur_coord, checks)
         IN  IF found.kind = "panic" THEN Panic
             ELSE LET path == found.val
                  IN  IF path = <<>>
                      THEN Replay_keepfirst(Tail(moves), coords, cur_coord, checks)
                      ELSE Replay_keepfirst(Tail(moves), coords \o path, path[Len(path)], checks)

RECURSIVE Replay(_, _, _, _)
\* the movement loop of Wire::parse.  path[1..] panics on an empty path.
Replay(moves, coords, cur_coord, checks) ==
    IF moves = <<>> THEN Ok(coords)
    ELSE LET found == find_path(Head(moves), cur_coord, checks)
         IN  IF found.kind = "panic" THEN Panic
             ELSE IF Len(found.val) < 1 THEN Panic
             ELSE LET path == Tail(found.val)
                  IN  IF path = <<>>
                      THEN Replay(Tail(moves), coords, cur_coord, checks)
                      ELSE Replay(Tail(moves), coords \o path, path[Len(path)], checks)

\* the set built without the first coordinate of the trail
SetOf_tail(s) == {s[i] : i \in 2..Len(s)}

\* HashSet::from_iter
SetOf(s) == {s[i] : i \in 1..Len(s)}

\* Wire::parse
Wire_parse(path, checks) ==
    LET moves == ParseMoves(Split(path, ","), <<>>)
    IN  IF moves.kind # "ok" THEN moves
        ELSE LET coords == Replay(moves.val, <<>>, COORD_ORIGIN, checks)
             IN  IF coords.kind # "ok" THEN coords
                 ELSE Ok([moves |-> moves.val,
                          coords |-> coords.val,
                          hash_coords |-> SetOf(coords.val)])

RECURSIVE StepsFrom_last(_, _, _, _)
\* StepsFrom that keeps scanning and reports the last occurrence
StepsFrom_last(coords, coord, idx, checks) ==
    IF idx >= Len(coords) THEN Ok(None)
    ELSE LET later == StepsFrom_last(coords, coord, idx + 1, checks)
         IN  IF later.kind = "ok" /\ later.val.some THEN later
             ELSE IF coord = coords[idx + 1]
                  THEN LET n == ArithU32(WrapU32(idx) + 1, checks)
                       IN  IF n.kind = "panic" THEN Panic ELSE Ok(Some(n.val))
                  ELSE later

RECURSIVE StepsFrom(_, _, _, _)
\* the scan of Wire::steps from trail index idx (0-based)
StepsFrom(coords, coord, idx, checks) ==
    IF idx >= Len(coords) THEN Ok(None)
    ELSE IF coord = coords[idx + 1]
         THEN LET n == ArithU32(WrapU32(idx) + 1, checks)
              IN  IF n.kind = "panic" THEN Panic ELSE Ok(Some(n.val))
         ELSE StepsFrom(coords, coord, idx + 1, checks)

\* Wire::steps
steps(wire, coord, checks) == StepsFrom(wire.coords, coord, 0, checks)

-----------------------------------------------------------------------------
(* Grid *)

\* PairCoords without the exclusion of the origin
PairCoords_origin(ws, idx, comp_idx) ==
    IF idx = comp_idx THEN {}
    ELSE ws[idx].hash_coords \cap ws[comp_idx].hash_coords

\* the coordinates one (idx, comp_idx) pair inserts into `intersects`
PairCoords(ws, idx, comp_idx) ==
    IF idx = comp_idx THEN {}
    ELSE {coord \in ws[idx].hash_coords \cap ws[comp_idx].hash_coords :
            coord # COORD_ORIGIN}

\* the HashSet `intersects` after the two nested loops
Intersects(ws) ==
    UNION {PairCoords(ws, idx, comp_idx) : idx \in 1..Len(ws), comp_idx \in 1..Len(ws)}

RECURSIVE Collect(_)
\* into_iter().collect(): the elements of the set in the set's iteration order
Collect(S) ==
    IF S = {} THEN <<>>
    ELSE LET c == CHOOSE e \in S : TRUE IN <<c>> \o Collect(S \ {c})

RECURSIVE Insert(_, _)
Insert(c, sorted) ==
    IF sorted = <<>> THEN <<c>>
    ELSE IF CoordLess(c, Head(sorted)) THEN <<c>> \o sorted
    ELSE <<Head(sorted)>> \o Insert(c, Tail(sorted))

RECURSIVE Sort(_)
\* Vec::sort (stable, by the derived Ord)
Sort(s) == IF s = <<>> THEN <<>> ELSE Insert(s[Len(s)], Sort(SubSeq(s, 1, Len(s) - 1)))

\* intersections with a Vec accumulator: (i, j) and (j, i) both push their coordinates
intersections_vec(ws) ==
    LET once == Collect(Intersects(ws)) IN Sort(once \o once)

\* Grid::intersections
intersections(ws) == Sort(Collect(Intersects(ws)))

RECURSIVE LowestFrom(_, _, _)
\* the loop of Grid::closest_distance over the remaining intersections
LowestFrom(coords, lowest, checks) ==
    IF coords = <<>> THEN Ok(Some(lowest))
    ELSE LET d == distance(Head(coords), COORD_ORIGIN, checks)
         IN  IF d.kind = "panic" THEN Panic
             ELSE LowestFrom(Tail(coords), IF d.val < lowest THEN d.val ELSE lowest, checks)

\* closest_distance without the wire-count guard
closest_distance_unguarded(ws, checks) ==
    LowestFrom(intersections(ws), U32Max, checks)

\* Grid::closest_distance
closest_distance(ws, checks) ==
    IF Len(ws) < 2 THEN Ok(None)
    ELSE LowestFrom(intersections(ws), U32Max, checks)

RECURSIVE IntersectSteps_break(_, _, _, _)
\* IntersectSteps leaving the loop at the first wire without the coordinate
IntersectSteps_break(ws, intersect, intersect_steps, checks) ==
    IF ws = <<>> THEN Ok(intersect_steps)
    ELSE LET st == steps(Head(ws), intersect, checks)
         IN  IF st.kind = "panic" THEN Panic
             ELSE IF ~st.val.some THEN Ok(intersect_steps)
                  ELSE LET sum == ArithU32(intersect_steps + st.val.val, checks)
                       IN  IF sum.kind = "panic" THEN Panic
                           ELSE IntersectSteps_break(Tail(ws), intersect, sum.val, checks)

RECURSIVE IntersectSteps(_, _, _, _)
\* the inner loop of Grid::shortest_steps: intersect_steps over the remaining wires
IntersectSteps(ws, intersect, intersect_steps, checks) ==
    IF ws = <<>> THEN Ok(intersect_steps)
    ELSE LET st == steps(Head(ws), intersect, checks)
         IN  IF st.kind = "panic" THEN Panic
             ELSE IF ~st.val.some
                  THEN IntersectSteps(Tail(ws), intersect, intersect_steps, checks)
                  ELSE LET sum == ArithU32(intersect_steps + st.val.val, checks)
                       IN  IF sum.kind = "panic" THEN Panic
                           ELSE IntersectSteps(Tail(ws), intersect, sum.val, checks)

RECURSIVE StepsOver(_, _, _, _)
\* the outer loop of Grid::shortest_steps over the remaining intersections
StepsOver(ws, coords, best, checks) ==
    IF coords = <<>> THEN Ok(IF best = U32Max THEN None ELSE Some(best))
    ELSE LET s == IntersectSteps(ws, Head(coords), 0, checks)
         IN  IF s.kind = "panic" THEN Panic
             ELSE StepsOver(ws, Tail(coords), IF s.val < best THEN s.val ELSE best, checks)

\* Grid::shortest_steps
shortest_steps(ws, checks) ==
    IF Len(ws) < 2 THEN Ok(None)
    ELSE StepsOver(ws, intersections(ws), U32Max, checks)

-----------------------------------------------------------------------------
(* day4: possible_password *)

\* the byte of '0', subtracted from every byte of the password
AsciiZero == 48

\* u8 arithmetic: a result outside 0..255 panics with overflow checks, wraps without
ArithU8(n, checks) ==
    IF n >= 0 /\ n <= 255 THEN Ok(n)
    ELSE IF checks THEN Panic ELSE Ok(n % 256)

\* the value returned after the loop, without the test for a double at the end
PwFinish_noend(has_double, repeated) == has_double

\* the value returned after the loop
PwFinish(has_double, repeated) ==
    IF repeated = 1 THEN TRUE ELSE has_double

RECURSIVE PwScan(_, _, _, _, _)
\* the loop over password.bytes(), from the state (has_double, repeated, last_digit)
PwScan(bytes, has_double, repeated, last_digit, checks) ==
    IF bytes = <<>> THEN Ok(PwFinish(has_double, repeated))
    ELSE LET digit == ArithU8(Head(bytes) - AsciiZero, checks)
         IN  IF digit.kind = "panic" THEN Panic
             ELSE IF ~last_digit.some
                  THEN PwScan(Tail(bytes), has_double, repeated, Some(digit.val), checks)
                  ELSE LET same == digit.val = last_digit.val
                           hd   == IF ~same /\ repeated = 1 THEN TRUE ELSE has_double
                           rep  == IF same THEN repeated + 1 ELSE 0
                       IN  IF last_digit.val > digit.val THEN Ok(FALSE)
                           ELSE PwScan(Tail(bytes), hd, rep, Some(digit.val), checks)

possible_password(bytes, checks) == PwScan(bytes, FALSE, 0, None, checks)

-----------------------------------------------------------------------------
(* day2: intcode Program *)

OP_ADD == 1
OP_MUL == 2
OP_HLT == 99

\* Program::load; memory and code are 0-indexed Vecs, kept as 1-indexed sequences
load(code) == [pc |-> 0, memory |-> code, code |-> code]

memory_at(p, idx) ==
    IF idx < Len(p.memory) THEN Some(p.memory[idx + 1]) ELSE None

\* a reset that rewinds pc and leaves memory as the last run left it
reset_pc_only(p) == [p EXCEPT !.pc = 0]

reset(p) == [p EXCEPT !.memory = p.code, !.pc = 0]

\* self.memory[idx] in range
InMem(p, idx) == idx >= 0 /\ idx < Len(p.memory)

\* a handler's outcome: the value returned (or Panic) and the Program left behind
Outcome(res, p) == [res |-> res, prog |-> p]

\* op_add and op_mul, which differ in the opcode, the messages and the operator
\* (f is "+" or "*"): an indexing out of range or a checked overflow panics
op_arith(p, opcode, name, f, checks) ==
    LET mem_len == Len(p.memory)
    IN  IF p.memory[p.pc + 1] # opcode
        THEN Outcome(Err(<<name, "unexpected opcode">>), p)
        ELSE IF p.pc + 3 > mem_len
        THEN Outcome(Err(<<name, "invalid length">>), p)
        ELSE LET a == p.memory[p.pc + 2]
             IN  IF a > mem_len THEN Outcome(Err(<<name, "a value out of range">>), p)
                 ELSE LET b == p.memory[p.pc + 3]
                      IN  IF b > mem_len
                          THEN Outcome(Err(<<name, "b value out of range">>), p)
                          ELSE IF ~InMem(p, p.pc + 3) THEN Outcome(Panic, p)
                          ELSE LET dest == p.memory[p.pc + 4]
                               IN  IF dest > mem_len
                                   THEN Outcome(Err(<<name, "dest value out of range">>), p)
                                   ELSE IF ~InMem(p, a) \/ ~InMem(p, b) \/ ~InMem(p, dest)
                                   THEN Outcome(Panic, p)
                                   ELSE LET v == ArithU32(
                                                   IF f = "+"
                                                   THEN p.memory[a + 1] + p.memory[b + 1]
                                                   ELSE p.memory[a + 1] * p.memory[b + 1],
                                                   checks)
                                        IN  IF v.kind = "panic" THEN Outcome(Panic, p)
                                            ELSE Outcome(Ok(FALSE),
                                                   [p EXCEPT !.memory[dest + 1] = v.val,
                                                             !.pc = p.pc + 4])

op_add(p, checks) == op_arith(p, OP_ADD, "OP_ADD", "+", checks)

op_mul(p, checks) == op_arith(p, OP_MUL, "OP_MUL", "*", checks)

step(p, checks) ==
    IF ~InMem(p, p.pc) THEN Outcome(Panic, p)
    ELSE LET code == p.memory[p.pc + 1]
         IN  CASE code = OP_ADD -> op_add(p, checks)
               [] code = OP_MUL -> op_mul(p, checks)
               [] code = OP_HLT -> Outcome(Ok(TRUE), p)
               [] OTHER -> Outcome(Err(<<"unknown op code">>), p)

RECURSIVE run(_, _)
\* the loop over step(): returns at the first Ok(true) or Err
run(p, checks) ==
    LET s == step(p, checks)
    IN  IF s.res = Ok(FALSE) THEN run(s.prog, checks) ELSE s

call(p, noun, verb, checks) ==
    LET q == reset(p)
    IN  IF Len(q.memory) < 3 THEN Outcome(Err(<<"invalid program length">>), q)
        ELSE LET r == run([q EXCEPT !.memory[2] = noun, !.memory[3] = verb], checks)
             IN  CASE r.res.kind = "panic" -> r
                   [] r.res.kind = "ok" ->
                        LET v == memory_at(r.prog, 0)
                        IN  IF v.some THEN Outcome(Ok(v.val), r.prog)
                            ELSE Outcome(Err(<<"result value not found">>), r.prog)
                   [] OTHER ->
                        Outcome(Err(<<"error running program">> \o r.res.msg), r.prog)

-----------------------------------------------------------------------------
(* Inputs *)

MaxWires == 3

Cat2(a, b) == a \o <<",">> \o b

\* movement tokens of the input file's lines
GridTokens ==
    {<<"U", "2">>, <<"R", "1">>, <<"D", "1">>, <<>>, <<"X", "1">>, <<"e_acute", "1">>}

\* lines of the input file: up to two comma-separated tokens
GridLines == GridTokens \cup {Cat2(a, b) : a \in GridTokens, b \in GridTokens}

RECURSIVE Decimal(_)
\* the decimal numeral of n
Decimal(n) == IF n < 10 THEN <<Digits[n + 1]>> ELSE Decimal(n \div 10) \o <<Digits[(n % 10) + 1]>>

Magnitudes == {0, 1, 2, I32Max, I32Max + 1, U32Max, U32Max + 1}

Numerals ==
    {Decimal(n) : n \in Magnitudes}
        \cup {<<>>, <<"+", "1">>, <<"-", "1">>, <<"1", "x">>}

Heads == {"U", "u", "D", "d", "L", "l", "R", "r", "X", "e_acute"}

Pads == {<<>>, <<" ">>}

\* single tokens handed to Movement::parse
MoveTexts ==
    {l \o <<h>> \o n \o r : l \in Pads, h \in Heads, n \in Numerals, r \in Pads}

WireTokens == {<<h>> \o Decimal(n) : h \in {"U", "D", "L", "R"}, n \in Magnitudes}

\* lines handed to Wire::parse
WireTexts ==
    {Cat2(a, b) : a \in WireTokens, b \in WireTokens}
        \cup {Cat2(a, <<" ">> \o b) : a \in WireTokens, b \in WireTokens}

SmallTokens == {<<h>> \o Decimal(n) : h \in {"U", "D", "L", "R"}, n \in {0, 1, 2}}

\* lines with empty and whitespace-only tokens between, before and after the tokens
BlankTexts ==
    {Cat2(Cat2(Cat2(a, e), f), b) : a \in SmallTokens, b \in SmallTokens, e \in Pads, f \in Pads}
        \cup {Cat2(e, Cat2(a, Cat2(b, f))) :
                a \in SmallTokens, b \in SmallTokens, e \in Pads, f \in Pads}

Starts ==
    {COORD_ORIGIN, Coordinate(0, 2), Coordinate(2, 0), Coordinate(1, 0 - 1),
     Coordinate(I32Max, I32Max), Coordinate(I32Min, I32Min)}

\* coordinates asked of Wire::steps
StepCoords == {COORD_ORIGIN, Coordinate(0, 1), Coordinate(1, 1)}

NoResult == [kind |-> "none"]

-----------------------------------------------------------------------------
(* Grid::parse_file, then the queries on the grid it returns *)

Init ==
    /\ overflow_checks \in BOOLEAN
    /\ wires = <<>>
    /\ pc = "lines"
    /\ ret = [op |-> "new"]
    /\ text = <<>>
    /\ start = COORD_ORIGIN
    /\ movRes = NoResult
    /\ pathRes = NoResult
    /\ wireRes = NoResult
    /\ password = <<>>
    /\ pwRes = NoResult
    /\ program = load(<<>>)
    /\ progRet = [op |-> "load", val |-> NoResult]

\* one iteration of the line loop: Wire::parse(line)? then add_wire
ReadLine(line) ==
    /\ pc = "lines"
    /\ Len(wires) < MaxWires
    /\ LET wire == Wire_parse(line, overflow_checks)
       IN  CASE wire.kind = "ok" ->
                  /\ wires' = Append(wires, wire.val)
                  /\ pc' = pc
                  /\ ret' = [op |-> "add_wire"]
             [] wire.kind = "err" ->
                  /\ wires' = <<>>
                  /\ pc' = "err"
                  /\ ret' = [op |-> "parse_file", val |-> wire]
             [] wire.kind = "panic" ->
                  /\ wires' = <<>>
                  /\ pc' = "panic"
                  /\ ret' = [op |-> "parse_file", val |-> wire]
    /\ text' = line
    /\ UNCHANGED <<day2Vars, day4Vars, overflow_checks, start, movRes, pathRes, wireRes>>

\* the lines are exhausted: Ok(grid)
EndOfFile ==
    /\ pc = "lines"
    /\ pc' = "ok"
    /\ ret' = [op |-> "parse_file", val |-> Ok("grid")]
    /\ UNCHANGED <<day2Vars, day4Vars, overflow_checks, wires, text, start, movRes, pathRes, wireRes>>

\* each run asks one query of the grid it loaded (main, and every test)
QueryIntersections ==
    /\ pc = "ok"
    /\ ret' = [op |-> "intersections", val |-> intersections(wires)]
    /\ pc' = "done"
    /\ UNCHANGED <<day2Vars, day4Vars, overflow_checks, wires, text, start, movRes, pathRes, wireRes>>

QueryClosestDistance ==
    /\ pc = "ok"
    /\ LET r == closest_distance(wires, overflow_checks)
       IN  /\ ret' = [op |-> "closest_distance", val |-> r]
           /\ pc' = IF r.kind = "panic" THEN "panic" ELSE "done"
    /\ UNCHANGED <<day2Vars, day4Vars, overflow_checks, wires, text, start, movRes, pathRes, wireRes>>

QueryShortestSteps ==
    /\ pc = "ok"
    /\ LET r == shortest_steps(wires, overflow_checks)
       IN  /\ ret' = [op |-> "shortest_steps", val |-> r]
           /\ pc' = IF r.kind = "panic" THEN "panic" ELSE "done"
    /\ UNCHANGED <<day2Vars, day4Vars, overflow_checks, wires, text, start, movRes, pathRes, wireRes>>

\* Wire::steps on one wire of the grid
QuerySteps(idx, coord) ==
    /\ pc = "ok"
    /\ idx \in 1..Len(wires)
    /\ LET r == steps(wires[idx], coord, overflow_checks)
       IN  /\ ret' = [op |-> "steps", wire |-> idx, coord |-> coord, val |-> r]
           /\ pc' = IF r.kind = "panic" THEN "panic" ELSE "done"
    /\ UNCHANGED <<day2Vars, day4Vars, overflow_checks, wires, text, start, movRes, pathRes, wireRes>>

Next ==
    \/ \E line \in GridLines : ReadLine(line)
    \/ EndOfFile
    \/ QueryIntersections
    \/ QueryClosestDistance
    \/ QueryShortestSteps
    \/ \E idx \in 1..MaxWires, coord \in StepCoords : QuerySteps(idx, coord)

Spec == Init /\ [][Next]_vars

-----------------------------------------------------------------------------
(* The parsers and find_path applied to drawn inputs *)

InitParse ==
    /\ overflow_checks \in BOOLEAN
    /\ wires = <<>>
    /\ pc = "parse"
    /\ ret = [op |-> "new"]
    /\ text \in MoveTexts \cup WireTexts \cup BlankTexts
    /\ start \in Starts
    /\ movRes = NoResult
    /\ pathRes = NoResult
    /\ wireRes = NoResult
    /\ password = <<>>
    /\ pwRes = NoResult
    /\ program = load(<<>>)
    /\ progRet = [op |-> "load", val |-> NoResult]

MovementParse ==
    /\ movRes' = Movement_parse(text)
    /\ UNCHANGED <<day2Vars, day4Vars, overflow_checks, wires, pc, ret, text, start, pathRes, wireRes>>

FindPath ==
    /\ movRes.kind = "ok"
    /\ pathRes' = find_path(movRes.val, start, overflow_checks)
    /\ UNCHANGED <<day2Vars, day4Vars, overflow_checks, wires, pc, ret, text, start, movRes, wireRes>>

WireParse ==
    /\ wireRes' = Wire_parse(text, overflow_checks)
    /\ UNCHANGED <<day2Vars, day4Vars, overflow_checks, wires, pc, ret, text, start, movRes, pathRes>>

NextParse == MovementParse \/ FindPath \/ WireParse

SpecParse == InitParse /\ [][NextParse]_vars

-----------------------------------------------------------------------------
(* Properties of the grid queries, checked under Spec *)

Abs(n) == IF n < 0 THEN 0 - n ELSE n

\* Manhattan distance from the origin, as a mathematical integer
Manhattan(c) == Abs(c.x) + Abs(c.y)

\* the wires' visited sets shared by two wires at different positions
SharedCoords ==
    {c \in UNION {wires[i].hash_coords : i \in 1..Len(wires)} :
        \E i \in 1..Len(wires), j \in 1..Len(wires) :
            i # j /\ c \in wires[i].hash_coords /\ c \in wires[j].hash_coords}

\* 1-based position of the first occurrence of c in a trail, 0 when c is absent
FirstVisit(trail, c) ==
    IF \E i \in 1..Len(trail) : trail[i] = c
    THEN CHOOSE i \in 1..Len(trail) :
            trail[i] = c /\ \A j \in 1..(i - 1) : trail[j] # c
    ELSE 0

RECURSIVE SumVisits(_, _)
\* sum over all wires of the first-visit position of c, absent counting 0
SumVisits(ws, c) ==
    IF ws = <<>> THEN 0 ELSE FirstVisit(Head(ws).coords, c) + SumVisits(Tail(ws), c)

Revisits(trail) == \E i, j \in 1..Len(trail) : i < j /\ trail[i] = trail[j]

\* C1: with at least 2 wires, closest_distance() returns a value d such that
\* some coordinate of intersections() lies at Manhattan distance exactly d from
\* the origin and none lies nearer.
C1_ClosestIsMinimum ==
    (ret.op = "closest_distance" /\ Len(wires) >= 2) =>
        /\ ret.val.kind = "ok"
        /\ ret.val.val.some
        /\ \E c \in SetOf(intersections(wires)) : Manhattan(c) = ret.val.val.val
        /\ \A c \in SetOf(intersections(wires)) : Manhattan(c) >= ret.val.val.val

\* C2: with at least 2 wires, shortest_steps() returns the minimum over the
\* coordinates c of intersections() of the sum over all loaded wires of
\* steps(c), a wire that never visits c adding 0 (and no value when there is
\* no intersection to take the minimum over).
C2_ShortestIsMinSum ==
    (ret.op = "shortest_steps" /\ Len(wires) >= 2) =>
        LET inter == SetOf(intersections(wires))
            sums == {SumVisits(wires, c) : c \in inter}
        IN  /\ ret.val.kind = "ok"
            /\ IF inter = {} THEN ~ret.val.val.some
               ELSE /\ ret.val.val.some
                    /\ ret.val.val.val \in sums
                    /\ \A s \in sums : ret.val.val.val <= s

\* C2 witness: three wires, a value is returned, and the intersection that
\* attains it is missing from one of the wires.
C2_Witness ==
    /\ ret.op = "shortest_steps"
    /\ Len(wires) = 3
    /\ ret.val.kind = "ok"
    /\ ret.val.val.some
    /\ \E c \in SetOf(intersections(wires)) :
          /\ SumVisits(wires, c) = ret.val.val.val
          /\ \E i \in 1..3 : c \notin wires[i].hash_coords

\* C3: with 0 or 1 wires, closest_distance() and shortest_steps() both return
\* None, whatever the wire's path.
C3_FewWiresNone ==
    (ret.op \in {"closest_distance", "shortest_steps"} /\ Len(wires) < 2) =>
        ret.val = Ok(None)

\* C3 witness: closest_distance() was asked of a grid whose single wire
\* comes back over its own trail.
C3_Witness ==
    /\ ret.op = "closest_distance"
    /\ Len(wires) = 1
    /\ Revisits(wires[1].coords)
    /\ ret.val = Ok(None)

\* C4: a coordinate is in intersections() exactly when it is not the origin
\* and is in the visited sets of two wires at different positions.
C4_IntersectionsExact ==
    ret.op = "intersections" =>
        /\ COORD_ORIGIN \notin SetOf(ret.val)
        /\ SetOf(ret.val) = SharedCoords \ {COORD_ORIGIN}
        /\ (Len(wires) = 1 => ret.val = <<>>)

\* C4 witness: two wires pass back through the origin and also share another
\* coordinate.
C4_Witness ==
    /\ ret.op = "intersections"
    /\ COORD_ORIGIN \in SharedCoords
    /\ ret.val # <<>>

\* the wires in the order given by the permutation p of their positions
Reordered(p) == [i \in 1..Len(wires) |-> wires[p[i]]]

\* C5: intersections() is strictly ascending in the (x, then y) order, hence
\* free of duplicates, and is the same for every order of adding the wires.
C5_SortedAndOrderFree ==
    ret.op = "intersections" =>
        /\ \A i \in 1..(Len(ret.val) - 1) : CoordLess(ret.val[i], ret.val[i + 1])
        /\ \A p \in Permutations(1..Len(wires)) : intersections(Reordered(p)) = ret.val

\* C5 witness: three different wires with at least two intersections.
C5_Witness ==
    /\ ret.op = "intersections"
    /\ Len(wires) = 3
    /\ wires[1] # wires[2] /\ wires[2] # wires[3] /\ wires[1] # wires[3]
    /\ Len(ret.val) >= 2

\* C7: steps(c) is the 1-based position of the first occurrence of c in the
\* trail, and None exactly when c does not occur in it.
C7_StepsFirstOccurrence ==
    ret.op = "steps" =>
        LET trail == wires[ret.wire].coords
        IN  /\ ret.val.kind = "ok"
            /\ ret.val.val.some <=> (\E i \in 1..Len(trail) : trail[i] = ret.coord)
            /\ ret.val.val.some =>
                  /\ ret.val.val.val \in 1..Len(trail)
                  /\ trail[ret.val.val.val] = ret.coord
                  /\ \A j \in 1..(ret.val.val.val - 1) : trail[j] # ret.coord

\* C7 witness: the coordinate asked for occurs twice in the trail.
C7_Witness ==
    /\ ret.op = "steps"
    /\ ret.val.kind = "ok"
    /\ ret.val.val.some
    /\ \E i, j \in 1..Len(wires[ret.wire].coords) :
          /\ i < j
          /\ wires[ret.wire].coords[i] = ret.coord
          /\ wires[ret.wire].coords[j] = ret.coord

-----------------------------------------------------------------------------
(* Properties of the parsers and of find_path, checked under SpecParse *)

\* c moved k units in direction dir, as mathematical integers
Shifted(c, dir, k) ==
    CASE dir = "U" -> Coordinate(c.x, c.y + k)
      [] dir = "D" -> Coordinate(c.x, c.y - k)
      [] dir = "L" -> Coordinate(c.x - k, c.y)
      [] dir = "R" -> Coordinate(c.x + k, c.y)

RECURSIVE SumMagnitudes(_)
SumMagnitudes(moves) ==
    IF moves = <<>> THEN 0 ELSE Head(moves).amount + SumMagnitudes(Tail(moves))

RECURSIVE StepDir(_, _)
\* direction of the movement that makes the i-th unit step
StepDir(moves, i) ==
    IF i <= Head(moves).amount THEN Head(moves).dir
    ELSE StepDir(Tail(moves), i - Head(moves).amount)

\* C6: the trail of a parsed wire is as long as the sum of its movements'
\* magnitudes and is a chain of unit steps from the origin, the i-th step in
\* the direction of the movement it belongs to; a movement of magnitude 0
\* owns no step, so it appends nothing and moves nothing.
C6_TrailIsUnitChain ==
    wireRes.kind = "ok" =>
        LET moves == wireRes.val.moves
            coords == wireRes.val.coords
        IN  /\ Len(coords) = SumMagnitudes(moves)
            /\ \A i \in 1..Len(coords) :
                  coords[i] = Shifted(IF i = 1 THEN COORD_ORIGIN ELSE coords[i - 1],
                                      StepDir(moves, i), 1)

\* C6 witness: a wire whose first movement has magnitude 0 and whose second
\* has not.
C6_Witness ==
    /\ wireRes.kind = "ok"
    /\ Len(wireRes.val.moves) = 2
    /\ wireRes.val.moves[1].amount = 0
    /\ wireRes.val.moves[2].amount > 0
    /\ wireRes.val.coords # <<>>

\* C8: find_path(start) of a movement of magnitude v returns exactly v+1
\* coordinates, the k-th (0-based) being start shifted k units in the
\* movement's direction, for every magnitude and every start.
C8_FindPathExact ==
    pathRes.kind # "none" =>
        /\ pathRes.kind = "ok"
        /\ Len(pathRes.val) = movRes.val.amount + 1
        /\ \A k \in 0..movRes.val.amount :
              pathRes.val[k + 1] = Shifted(start, movRes.val.dir, k)

RECURSIVE TrimZeros(_)
\* a numeral without its leading zeros
TrimZeros(s) == IF Len(s) > 1 /\ Head(s) = "0" THEN TrimZeros(Tail(s)) ELSE s

\* C8 (amended): for a magnitude v of at most i32::MAX and a start from which
\* the full shift stays inside the i32 coordinate range, find_path(start)
\* returns exactly v+1 coordinates, the k-th (0-based) being start shifted k
\* units in the movement's direction.
C8_FindPathInRange ==
    (/\ pathRes.kind # "none"
     /\ movRes.val.amount <= I32Max
     /\ InI32(Shifted(start, movRes.val.dir, movRes.val.amount).x)
     /\ InI32(Shifted(start, movRes.val.dir, movRes.val.amount).y)) =>
        /\ pathRes.kind = "ok"
        /\ Len(pathRes.val) = movRes.val.amount + 1
        /\ \A k \in 0..movRes.val.amount :
              pathRes.val[k + 1] = Shifted(start, movRes.val.dir, k)

\* C8 witness: the largest in-range magnitude, walked down from the origin.
C8_Witness ==
    /\ pathRes.kind = "ok"
    /\ movRes.val = Down(I32Max)
    /\ start = COORD_ORIGIN
    /\ Len(pathRes.val) = I32Max + 1
    /\ pathRes.val[I32Max + 1] = Coordinate(0, 0 - I32Max)

\* the text is a decimal numeral of a magnitude a Movement can carry
IsMagnitude(s) ==
    /\ s # <<>>
    /\ \A i \in 1..Len(s) : IsDigit(s[i])
    /\ \E n \in 0..U32Max : Decimal(n) = TrimZeros(s)

\* C9: Movement::parse returns a Movement or a ParseError for every token: a
\* ParseError when the token has fewer than 2 characters, when the text
\* after the first character is no decimal non-negative integer, or when the
\* first character is not U/D/L/R in either case; otherwise the Movement of
\* that direction and magnitude.
C9_ParseTotal ==
    movRes.kind # "none" =>
        /\ movRes.kind \in {"ok", "err"}
        /\ Len(text) < 2 => movRes.kind = "err"
        /\ (Len(text) >= 2 /\ ToUpper(Head(text)) \notin {"U", "D", "L", "R"}) =>
              movRes.kind = "err"
        /\ (Len(text) >= 2 /\ \E i \in 2..Len(text) : ~IsDigit(text[i]) /\ text[i] # "+") =>
              movRes.kind = "err"
        /\ (Len(text) >= 2 /\ ToUpper(Head(text)) \in {"U", "D", "L", "R"}
                /\ IsMagnitude(Tail(text))) =>
              /\ movRes.kind = "ok"
              /\ movRes.val.dir = ToUpper(Head(text))
              /\ Decimal(movRes.val.amount) = TrimZeros(Tail(text))

\* a token Movement::parse accepts as it stands
ValidToken(t) ==
    /\ Len(t) >= 2
    /\ Head(t) \in {"U", "u", "D", "d", "L", "l", "R", "r"}
    /\ IsMagnitude(Tail(t))

\* C10: whitespace around a movement token is trimmed before validation: a
\* valid token with leading or trailing whitespace parses to the Movement
\* of the token itself, alone or as an item of a wire line.
C10_WhitespaceTrimmed ==
    /\ (movRes.kind # "none" /\ ValidToken(Trim(text))) =>
          movRes = Movement_parse(Trim(text))
    /\ (wireRes.kind # "none" /\ \A i \in 1..Len(Split(text, ",")) :
                                     ValidToken(Trim(Split(text, ",")[i]))) =>
          /\ wireRes.kind # "err"
          /\ wireRes.kind = "ok" =>
                wireRes.val.moves =
                    [i \in 1..Len(Split(text, ",")) |->
                        Movement_parse(Trim(Split(text, ",")[i])).val]

RECURSIVE NonBlank(_)
\* the tokens that are not empty after trimming
NonBlank(tokens) ==
    IF tokens = <<>> THEN <<>>
    ELSE IF Trim(Head(tokens)) = <<>> THEN NonBlank(Tail(tokens))
    ELSE <<Head(tokens)>> \o NonBlank(Tail(tokens))

RECURSIVE Join(_)
\* the tokens written as one comma-separated line
Join(tokens) ==
    IF tokens = <<>> THEN <<>>
    ELSE IF Len(tokens) = 1 THEN Head(tokens)
    ELSE Cat2(Head(tokens), Join(Tail(tokens)))

\* C11: Wire::parse skips the tokens that are empty after trimming: a valid
\* line with empty or whitespace-only tokens put between, before or after
\* its tokens gives the same result (movements, trail, visited set) as the
\* line without them.
C11_BlankTokensSkipped ==
    (/\ wireRes.kind # "none"
     /\ \A i \in 1..Len(NonBlank(Split(text, ","))) :
            ValidToken(NonBlank(Split(text, ","))[i])) =>
        wireRes = Wire_parse(Join(NonBlank(Split(text, ","))), overflow_checks)

\* C11 witness: a wire of two movements parsed from a line that also holds
\* an empty token and a whitespace-only token.
C11_Witness ==
    /\ wireRes.kind = "ok"
    /\ Len(wireRes.val.moves) = 2
    /\ wireRes.val.coords # <<>>
    /\ \E i \in 1..Len(Split(text, ",")) : Split(text, ",")[i] = <<>>
    /\ \E i \in 1..Len(Split(text, ",")) : Split(text, ",")[i] = <<" ">>

-----------------------------------------------------------------------------
(* Properties of parse_file's error path, checked under Spec *)

\* a token Movement::parse is to refuse: not blank and not a valid token
BadToken(t) == Trim(t) # <<>> /\ ~ValidToken(t)

HasBadToken(line) ==
    \E i \in 1..Len(Split(line, ",")) : BadToken(Split(line, ",")[i])

FirstBadToken(line) ==
    LET tokens == Split(line, ",")
        i == CHOOSE k \in 1..Len(tokens) :
                BadToken(tokens[k]) /\ \A j \in 1..(k - 1) : ~BadToken(tokens[j])
    IN  tokens[i]

\* C12: a malformed token aborts parsing with no partial result: when the
\* line just read holds a bad token, Wire::parse returned the ParseError of
\* the first bad token and parse_file returned that error and no Grid,
\* however many lines were added before.
C12_BadTokenAborts ==
    (ret.op \in {"add_wire", "parse_file"} /\ HasBadToken(text)) =>
        /\ pc = "err"
        /\ ret.op = "parse_file"
        /\ ret.val.kind = "err"
        /\ ret.val = Movement_parse(FirstBadToken(text))
        /\ wires = <<>>

-----------------------------------------------------------------------------
(* Further properties of the grid, checked under Spec *)

\* the positions of the wires on which steps(c) is present
WiresReaching(c) ==
    {i \in 1..Len(wires) :
        LET st == steps(wires[i], c, overflow_checks)
        IN  st.kind = "ok" /\ st.val.some}

\* C13: the visited set of every parsed wire is the set of the coordinates
\* of its trail, so every coordinate of intersections() has a steps() value
\* on at least two wires of the grid.
C13_VisitedIsTrail ==
    /\ \A i \in 1..Len(wires) :
          wires[i].hash_coords = {wires[i].coords[k] : k \in 1..Len(wires[i].coords)}
    /\ ret.op = "intersections" =>
          \A k \in 1..Len(ret.val) : Cardinality(WiresReaching(ret.val[k])) >= 2

\* C13 witness: intersections() of three wires, one of which visits a
\* coordinate twice, is not empty.
C13_Witness ==
    /\ ret.op = "intersections"
    /\ Len(wires) = 3
    /\ ret.val # <<>>
    /\ \E i \in 1..3 : Revisits(wires[i].coords)

\* C16: closest_distance() and shortest_steps() each return a value exactly
\* when intersections() is not empty, and None otherwise.
C16_SameCondition ==
    ret.op \in {"closest_distance", "shortest_steps"} =>
        /\ ret.val.kind = "ok"
        /\ ret.val.val.some <=> (intersections(wires) # <<>>)

-----------------------------------------------------------------------------
(* possible_password applied to drawn passwords *)

MaxDigits == 6

PwDigits == {1, 2, 3}

\* the bytes of the digit strings of at most MaxDigits characters
Passwords ==
    UNION {[1..n -> {AsciiZero + d : d \in PwDigits}] : n \in 0..MaxDigits}

InitPassword ==
    /\ overflow_checks \in BOOLEAN
    /\ wires = <<>>
    /\ pc = "password"
    /\ ret = [op |-> "new"]
    /\ text = <<>>
    /\ start = COORD_ORIGIN
    /\ movRes = NoResult
    /\ pathRes = NoResult
    /\ wireRes = NoResult
    /\ password \in Passwords
    /\ pwRes = NoResult
    /\ program = load(<<>>)
    /\ progRet = [op |-> "load", val |-> NoResult]

PossiblePassword ==
    /\ pwRes' = possible_password(password, overflow_checks)
    /\ UNCHANGED <<day2Vars, overflow_checks, wires, pc, ret, text, start, movRes,
                   pathRes, wireRes, password>>

NextPassword == PossiblePassword

SpecPassword == InitPassword /\ [][NextPassword]_vars

-----------------------------------------------------------------------------
(* The intcode Program: load, then step, run, reset and call in any order *)

MaxCells == 5

Cells == {0, 1, 2, 4, OP_HLT}

Programs == UNION {[1..n -> Cells] : n \in 0..MaxCells}

\* nouns and verbs handed to call: an address in range and one past every program
NounVerbs == {0, 9}

InitIntcode ==
    /\ overflow_checks \in BOOLEAN
    /\ wires = <<>>
    /\ pc = "intcode"
    /\ ret = [op |-> "new"]
    /\ text = <<>>
    /\ start = COORD_ORIGIN
    /\ movRes = NoResult
    /\ pathRes = NoResult
    /\ wireRes = NoResult
    /\ password = <<>>
    /\ pwRes = NoResult
    /\ program \in {load(code) : code \in Programs}
    /\ progRet = [op |-> "load", val |-> NoResult]

\* a panic ends the process: nothing is called after it
Alive == progRet.val.kind # "panic"

\* whether the last call on the Program was a call() that returned an Err
AfterErr == progRet.op = "call" /\ progRet.val.kind = "err"

\* whether earlier calls left memory different from the loaded code
Dirty == program.memory # program.code

Step ==
    /\ Alive
    /\ LET s == step(program, overflow_checks)
       IN  /\ program' = s.prog
           /\ progRet' = [op |-> "step", val |-> s.res, before |-> program]
    /\ UNCHANGED <<day4Vars, overflow_checks, wires, pc, ret, text, start, movRes,
                   pathRes, wireRes>>

Run ==
    /\ Alive
    /\ LET r == run(program, overflow_checks)
       IN  /\ program' = r.prog
           /\ progRet' = [op |-> "run", val |-> r.res]
    /\ UNCHANGED <<day4Vars, overflow_checks, wires, pc, ret, text, start, movRes,
                   pathRes, wireRes>>

Reset ==
    /\ Alive
    /\ program' = reset(program)
    /\ progRet' = [op |-> "reset", val |-> NoResult]
    /\ UNCHANGED <<day4Vars, overflow_checks, wires, pc, ret, text, start, movRes,
                   pathRes, wireRes>>

Call(noun, verb) ==
    /\ Alive
    /\ LET c == call(program, noun, verb, overflow_checks)
       IN  /\ program' = c.prog
           /\ progRet' = [op |-> "call", val |-> c.res, noun |-> noun, verb |-> verb,
                          dirty |-> Dirty, after_err |-> AfterErr]
    /\ UNCHANGED <<day4Vars, overflow_checks, wires, pc, ret, text, start, movRes,
                   pathRes, wireRes>>

NextIntcode ==
    \/ Step
    \/ Run
    \/ Reset
    \/ \E noun \in NounVerbs, verb \in NounVerbs : Call(noun, verb)

SpecIntcode == InitIntcode /\ [][NextIntcode]_vars

-----------------------------------------------------------------------------
(* Properties of possible_password, checked under SpecPassword *)

\* the digits a password's bytes stand for
DigitsOf(bytes) == [i \in 1..Len(bytes) |-> bytes[i] - AsciiZero]

NeverDecreases(d) == \A i \in 1..(Len(d) - 1) : d[i] <= d[i + 1]

\* d[i..j] is a maximal run of equal adjacent digits
MaximalRun(d, i, j) ==
    /\ 1 <= i /\ i <= j /\ j <= Len(d)
    /\ \A k \in i..j : d[k] = d[i]
    /\ (i = 1 \/ d[i - 1] # d[i])
    /\ (j = Len(d) \/ d[j + 1] # d[i])

HasExactDouble(d) == \E i \in 1..(Len(d) - 1) : MaximalRun(d, i, i + 1)

\* C14: possible_password(p) returns true exactly when the digits of p never
\* decrease from left to right and some maximal run of equal adjacent digits
\* has length exactly 2.
C14_PasswordRule ==
    pwRes.kind # "none" =>
        pwRes = Ok(NeverDecreases(DigitsOf(password)) /\ HasExactDouble(DigitsOf(password)))

\* accepted for a double at the very end alone, next to a longer run that does not count
C14_Witness ==
    LET d == DigitsOf(password)
    IN  /\ pwRes = Ok(TRUE)
        /\ Len(d) >= 5
        /\ MaximalRun(d, Len(d) - 1, Len(d))
        /\ \A i \in 1..(Len(d) - 2) : ~MaximalRun(d, i, i + 1)
        /\ \E i \in 1..(Len(d) - 2) : MaximalRun(d, i, i + 2)

-----------------------------------------------------------------------------
(* Properties of the intcode Program, checked under SpecIntcode *)

\* C15: whatever was called on the Program before, call(noun, verb) returns what
\* the same call returns on a freshly loaded Program and leaves the same
\* Program behind; a returned value is the cell at address 0 of a halted
\* Program, and a program shorter than 3 cells yields an Err.
C15_CallAsFresh ==
    progRet.op = "call" =>
        LET fresh == call(load(program.code), progRet.noun, progRet.verb, overflow_checks)
        IN  /\ progRet.val = fresh.res
            /\ progRet.val.kind # "panic" => program = fresh.prog
            /\ progRet.val.kind = "ok" =>
                  /\ progRet.val.val = program.memory[1]
                  /\ program.memory[program.pc + 1] = OP_HLT
            /\ Len(program.code) < 3 => progRet.val.kind = "err"

\* a call that returns a value right after a call that ended in an error, on a
\* Program whose memory the earlier calls had changed
C15_Witness ==
    /\ progRet.op = "call"
    /\ progRet.val.kind = "ok"
    /\ progRet.after_err
    /\ progRet.dirty
    /\ program.memory # program.code

\* C17: a step either halts (Ok(true)), advances pc by 4 after an add or a
\* multiply, or returns an Err; it never panics on an access outside memory:
\* a pc at or past the end, operands that do not all fit and an operand
\* address at or past the end each give an Err.
C17_StepInBounds ==
    progRet.op = "step" =>
        LET b   == progRet.before
            len == Len(b.memory)
            arith == b.pc < len /\ b.memory[b.pc + 1] \in {OP_ADD, OP_MUL}
            fits  == b.pc + 3 < len
        IN  /\ progRet.val.kind \in {"ok", "err"}
            /\ \/ progRet.val = Ok(TRUE)
               \/ progRet.val = Ok(FALSE) /\ arith /\ program.pc = b.pc + 4
               \/ progRet.val.kind = "err"
            /\ b.pc >= len => progRet.val.kind = "err"
            /\ (arith /\ ~fits) => progRet.val.kind = "err"
            /\ (arith /\ fits /\ \E k \in 2..4 : b.memory[b.pc + k] >= len) =>
                  progRet.val.kind = "err"

====
